---- MODULE Spec2Model ----
(***************************************************************************)
(* Model of ip_cam_viewer.py: the four actions start / repair / restart /  *)
(* stop over named screen sessions, at the granularity of the external     *)
(* commands the script runs (screen -list, screen -dmS, screen -X quit,    *)
(* vcgencmd dispmanx_list, tvservice --status).                           *)
(***************************************************************************)
EXTENDS Integers, Sequences, FiniteSets, TLC

\* Largest number of configured streams explored (one beyond the supported 6).
MaxStreams == 7

\* Largest stream count handed to calc_grid_dims when it is run on its own.
MaxCount == 8

\* Largest number of configured streams where screen or grep may be missing.
MaxToolStreams == 3

\* Largest number of configured streams with two invocations running at once.
MaxRaceStreams == 3

\* tvservice reports no active mode line (disp_res_x / disp_res_y stay None).
NoMode == <<0, 0>>

\* Display modes tvservice reports in the reconciler specification.
Modes == {<<1920, 1080>>, NoMode}

\* Display modes used to exercise the layout functions on their own.
GridModes ==
    Modes \cup {<<1366, 768>>, <<1280, 720>>, <<640, 480>>, <<7, 5>>, <<3, 2>>}

\* calc_grid_dims raised "Maximum number of streams supported is 6".
Unsupported == <<0, 0>>

\* win_pos raised "Failed to query 'tvservice'".
NoBox == <<>>

----------------------------------------------------------------------------
(* Pure functions *)

\* Variant: the 2-to-4 range read as range(2, 4), so that 4 streams get 3 x 2.
calc_grid_dims_short_range(cnt) ==
    IF cnt = 1 THEN <<1, 1>>
    ELSE IF cnt \in 2..3 THEN <<2, 2>>
    ELSE IF cnt \in 4..6 THEN <<3, 2>>
    ELSE <<0, 0>>

calc_grid_dims(cnt) ==
    IF cnt = 1 THEN <<1, 1>>
    ELSE IF cnt \in 2..4 THEN <<2, 2>>
    ELSE IF cnt \in 5..6 THEN <<3, 2>>
    ELSE Unsupported

\* Variant: the bottom-right corner taken inclusive of one more pixel.
win_pos_wide(grid_sz_x, grid_sz_y, x, y, mode) ==
    IF mode[1] = 0 \/ mode[2] = 0 THEN <<>>
    ELSE LET x_sz == mode[1] \div grid_sz_x
             y_sz == mode[2] \div grid_sz_y
         IN  <<x * x_sz, y * y_sz, x * x_sz + x_sz + 1, y * y_sz + y_sz + 1>>

win_pos(grid_sz_x, grid_sz_y, x, y, mode) ==
    IF mode[1] = 0 \/ mode[2] = 0 THEN NoBox
    ELSE LET x_sz == mode[1] \div grid_sz_x
             y_sz == mode[2] \div grid_sz_y
             top_left_x == x * x_sz
             top_left_y == y * y_sz
             bot_right_x == top_left_x + x_sz
             bot_right_y == top_left_y + y_sz
         IN  <<top_left_x, top_left_y, bot_right_x, bot_right_y>>

\* The call site shared by start_streams and repair_streams: stream idx sits
\* at column idx % grid_sz_x and row idx // grid_sz_x.
\* Variant: column and row of the stream swapped.
stream_box_swapped(g, i, mode) ==
    IF mode[1] = 0 \/ mode[2] = 0 THEN <<>>
    ELSE LET x_sz == mode[1] \div g[1]
             y_sz == mode[2] \div g[2]
             x == i \div g[1]
             y == i % g[1]
         IN  <<x * x_sz, y * y_sz, x * x_sz + x_sz, y * y_sz + y_sz>>

stream_box(g, i, mode) == win_pos(g[1], g[2], i % g[1], i \div g[1], mode)

\* bounding_box_coords[0:2], the top-left corner repair compares.
anchor_of(box) == <<box[1], box[2]>>

\* Top-left corners of every cell of the grid on the given display mode: the
\* dst corners vcgencmd can report for layers placed by this script.
cell_anchors(cnt, mode) ==
    LET g == calc_grid_dims(cnt)
    IN  IF g = Unsupported \/ win_pos(1, 1, 0, 0, mode) = NoBox
        THEN {<<0, 0>>}
        ELSE {anchor_of(win_pos(g[1], g[2], x, y, mode)) :
                  x \in 0..(g[1] - 1), y \in 0..(g[2] - 1)}

\* Layer lines of 'vcgencmd dispmanx_list': a format tag and a dst corner.
layer_lines(cnt, mode) ==
    {[format |-> "RGBA32", dst |-> a] : a \in cell_anchors(cnt, mode)}
        \cup {[format |-> "UNKNOWN", dst |-> <<0, 0>>]}

\* Variant: every layer line contributes its corner, whatever its format.
parse_dispmanx_all(lines) == {l.dst : l \in lines}

\* The parse loop of repair_streams: lines tagged format:UNKNOWN are skipped,
\* every other layer line contributes its dst corner.
parse_dispmanx(lines) == {l.dst : l \in {m \in lines : m.format # "UNKNOWN"}}

----------------------------------------------------------------------------
(* State *)

VARIABLES
    streams,              \* len(cfg["streams"])
    sess,                 \* sess[i]: number of screen sessions named cam<i>
    tvservice,            \* display mode reported by 'tvservice --status'
    action,               \* args.action of the running invocation, or "none"
    live_run,             \* not args.dry
    pc,                   \* position of the running invocation
    idx,                  \* loop index of the running for-loop
    grid,                 \* (grid_sz_x, grid_sz_y)
    dispmanx_coords,      \* corners parsed from vcgencmd by repair_streams
    missing_stream_cnt,   \* repair_streams' counter
    calls,                \* external screen commands executed, with status
    printed,              \* start_cmd / stop_cmd lines printed
    exit_status,          \* process exit status once pc = "exit"
    prev_start,           \* whether the preceding invocation was a start
    dry_report,           \* report of the preceding dry run, for comparison
    fn_box,               \* result of the layout functions run on their own
    tools,                \* which of screen and grep can be executed
    vcgencmd_stdout,      \* layer lines vcgencmd printed, kept during the scan
    peer                  \* a second invocation of start running concurrently

vars == <<streams, sess, tvservice, action, live_run, pc, idx, grid,
          dispmanx_coords, missing_stream_cnt, calls, printed, exit_status,
          prev_start, dry_report, fn_box, tools, vcgencmd_stdout, peer>>

Indices == 0..(MaxStreams - 1)

NoReport == [action |-> "none", coords |-> {}, printed |-> <<>>]

\* No second invocation is running.
NoPeer == [pc |-> "off", idx |-> 0, grid |-> Unsupported, calls |-> <<>>,
           exit_status |-> 0]

Init ==
    /\ streams \in 1..MaxStreams
    /\ sess \in [Indices -> {0, 1}]
    /\ \A i \in Indices : i >= streams => sess[i] = 0
    /\ tvservice \in Modes
    /\ action = "none"
    /\ live_run = TRUE
    /\ pc = "idle"
    /\ idx = 0
    /\ grid = Unsupported
    /\ dispmanx_coords = {}
    /\ missing_stream_cnt = 0
    /\ calls = <<>>
    /\ printed = <<>>
    /\ exit_status = 0
    /\ prev_start = "none"
    /\ dry_report = NoReport
    /\ fn_box = NoBox
    /\ tools = "ok"      \* screen and grep are installed
    /\ vcgencmd_stdout = {}
    /\ peer = NoPeer

\* Variables no step of a running invocation touches.
env_vars == <<streams, tvservice, prev_start, fn_box, tools, vcgencmd_stdout,
              peer>>

\* The same without the probe output, for the steps of repair that set it.
probe_frame == <<streams, tvservice, prev_start, fn_box, tools, peer>>

----------------------------------------------------------------------------
(* External commands *)

\* Variant: the grep pattern names the next index.
check_screen_session_exists_next(i) == sess[(i + 1) % MaxStreams] > 0

\* check_screen_session_exists: 'screen -list | grep' exits 0 iff a session
\* named cam<i> is listed.  The status of the pipeline is that of grep: when
\* screen cannot be run grep reads nothing and exits 1, as for "not listed".
check_screen_session_exists(i) == tools # "no_screen" /\ sess[i] > 0

call(c, i, rc, win) == [c |-> c, i |-> i, rc |-> rc, win |-> win]
line(c, i, win) == [c |-> c, i |-> i, win |-> win]

\* An exception propagates out of main: the interpreter exits nonzero.
raise ==
    /\ pc' = "exit"
    /\ exit_status' = 1

\* Variant: screen reports success but the session stays.
quit_outcomes_no_effect(i) ==
    IF tools # "no_screen" /\ sess[i] = 1
    THEN {<<0, sess>>, <<1, sess>>}
    ELSE {<<1, sess>>}

\* Outcomes of os.system("screen -S cam<i> -X quit"): the exit status and the
\* sessions left.  With no session (or several) of that name screen reports an
\* error and changes nothing; with exactly one it may quit it or fail.
quit_outcomes(i) ==
    IF tools # "no_screen" /\ sess[i] = 1
    THEN {<<0, [sess EXCEPT ![i] = 0]>>, <<1, sess>>}
    ELSE {<<1, sess>>}

\* Variant: the session is created under the name of the next index.
launch_outcomes_misnamed(i) ==
    {<<0, [sess EXCEPT ![(i + 1) % MaxStreams] = @ + 1]>>, <<1, sess>>}

\* Outcomes of os.system("screen -dmS cam<i> bash -c '...'"); the shell
\* reports a nonzero status when screen cannot be run.
launch_outcomes(i) ==
    IF tools = "no_screen"
    THEN {<<1, sess>>}
    ELSE {<<0, [sess EXCEPT ![i] = @ + 1]>>, <<1, sess>>}

----------------------------------------------------------------------------
(* main *)

entry_point(a) ==
    CASE a = "start"   -> "start_grid"
      [] a = "repair"  -> "repair_probe"
      [] a = "restart" -> "stop_loop"
      [] a = "stop"    -> "stop_loop"

main ==
    /\ pc = "idle"
    /\ \E a \in {"start", "repair", "restart", "stop"}, l \in BOOLEAN :
          /\ action' = a
          /\ live_run' = l
          /\ pc' = entry_point(a)
          /\ prev_start' = IF a = "start" THEN prev_start ELSE "none"
          /\ dry_report' = IF dry_report.action = a THEN dry_report ELSE NoReport
    /\ UNCHANGED <<streams, sess, tvservice, idx, grid, dispmanx_coords,
                   missing_stream_cnt, calls, printed, exit_status, fn_box,
                   tools, vcgencmd_stdout, peer>>

\* sys.exit(0) after the action returned.
return_ok ==
    /\ pc' = "exit"
    /\ exit_status' = 0

----------------------------------------------------------------------------
(* start_streams *)

start_streams_grid ==
    /\ pc = "start_grid"
    /\ grid' = calc_grid_dims(streams)
    /\ idx' = 0
    /\ IF grid' = Unsupported
       THEN raise
       ELSE pc' = "start_loop" /\ UNCHANGED exit_status
    /\ UNCHANGED <<sess, action, live_run, dispmanx_coords, missing_stream_cnt,
                   calls, printed, dry_report>>
    /\ UNCHANGED env_vars

\* Move to the next stream of the start loop, or return after the last one.
start_next ==
    /\ idx' = idx + 1
    /\ IF idx + 1 = streams
       THEN return_ok
       ELSE pc' = "start_loop" /\ UNCHANGED exit_status

\* Variant: an existing session is reported but not skipped.
start_streams_check_no_skip ==
    /\ pc = "start_loop"
    /\ IF tools = "no_grep"
       THEN raise /\ UNCHANGED <<idx, calls>>
       ELSE /\ calls' = Append(calls, call("exists", idx,
                                          IF check_screen_session_exists(idx)
                                          THEN 0 ELSE 1, <<>>))
            /\ pc' = "start_exec"
            /\ UNCHANGED <<idx, exit_status>>
    /\ UNCHANGED <<sess, action, live_run, grid, dispmanx_coords,
                   missing_stream_cnt, printed, dry_report>>
    /\ UNCHANGED env_vars

start_streams_check ==
    /\ pc = "start_loop"
    /\ IF tools = "no_grep"
       THEN raise /\ UNCHANGED <<idx, calls>>
       ELSE IF check_screen_session_exists(idx)
       THEN /\ calls' = Append(calls, call("exists", idx, 0, <<>>))
            /\ start_next
       ELSE /\ calls' = Append(calls, call("exists", idx, 1, <<>>))
            /\ pc' = "start_exec"
            /\ UNCHANGED <<idx, exit_status>>
    /\ UNCHANGED <<sess, action, live_run, grid, dispmanx_coords,
                   missing_stream_cnt, printed, dry_report>>
    /\ UNCHANGED env_vars

\* Variant: the exit status of the launch is ignored.
start_streams_exec_ignore_status ==
    /\ pc = "start_exec"
    /\ LET box == stream_box(grid, idx, tvservice)
       IN  IF box = NoBox
           THEN /\ raise
                /\ UNCHANGED <<sess, idx, calls, printed>>
           ELSE /\ printed' = Append(printed, line("create", idx, box))
                /\ IF live_run
                   THEN \E o \in launch_outcomes(idx) :
                           /\ calls' = Append(calls, call("create", idx, o[1], box))
                           /\ sess' = o[2]
                           /\ start_next
                   ELSE /\ start_next
                        /\ UNCHANGED <<sess, calls>>
    /\ UNCHANGED <<action, live_run, grid, dispmanx_coords, missing_stream_cnt,
                   dry_report>>
    /\ UNCHANGED env_vars

start_streams_exec ==
    /\ pc = "start_exec"
    /\ LET box == stream_box(grid, idx, tvservice)
       IN  IF box = NoBox
           THEN /\ raise
                /\ UNCHANGED <<sess, idx, calls, printed>>
           ELSE /\ printed' = Append(printed, line("create", idx, box))
                /\ IF live_run
                   THEN \E o \in launch_outcomes(idx) :
                           /\ calls' = Append(calls, call("create", idx, o[1], box))
                           /\ sess' = o[2]
                           /\ IF o[1] # 0
                              THEN raise /\ UNCHANGED idx
                              ELSE start_next
                   ELSE /\ start_next
                        /\ UNCHANGED <<sess, calls>>
    /\ UNCHANGED <<action, live_run, grid, dispmanx_coords, missing_stream_cnt,
                   dry_report>>
    /\ UNCHANGED env_vars

start_streams == start_streams_grid \/ start_streams_check \/ start_streams_exec

----------------------------------------------------------------------------
(* stop_streams and restart_streams *)

\* Variant: restart_streams starts right after stopping, without the sleep.
stop_next_no_sleep ==
    /\ idx' = idx + 1
    /\ IF idx + 1 = streams
       THEN IF action = "restart"
            THEN pc' = "start_grid" /\ UNCHANGED exit_status
            ELSE return_ok
       ELSE pc' = "stop_loop" /\ UNCHANGED exit_status

\* Move to the next stream of the stop loop; after the last one stop returns
\* to main, or to restart_streams, which sleeps before starting.
stop_next ==
    /\ idx' = idx + 1
    /\ IF idx + 1 = streams
       THEN IF action = "restart"
            THEN pc' = "sleep" /\ UNCHANGED exit_status
            ELSE return_ok
       ELSE pc' = "stop_loop" /\ UNCHANGED exit_status

stop_streams_check ==
    /\ pc = "stop_loop"
    /\ IF tools = "no_grep"
       THEN raise /\ UNCHANGED <<idx, calls>>
       ELSE IF check_screen_session_exists(idx)
       THEN /\ calls' = Append(calls, call("exists", idx, 0, <<>>))
            /\ pc' = "stop_exec"
            /\ UNCHANGED <<idx, exit_status>>
       ELSE /\ calls' = Append(calls, call("exists", idx, 1, <<>>))
            /\ stop_next
    /\ UNCHANGED <<sess, action, live_run, grid, dispmanx_coords,
                   missing_stream_cnt, printed, dry_report>>
    /\ UNCHANGED env_vars

\* Variant: the stop command is executed whether or not the run is live.
stop_streams_exec_always ==
    /\ pc = "stop_exec"
    /\ printed' = Append(printed, line("terminate", idx, <<>>))
    /\ \E o \in quit_outcomes(idx) :
          /\ calls' = Append(calls, call("terminate", idx, o[1], <<>>))
          /\ sess' = o[2]
          /\ IF o[1] # 0
             THEN raise /\ UNCHANGED idx
             ELSE stop_next
    /\ UNCHANGED <<action, live_run, grid, dispmanx_coords, missing_stream_cnt,
                   dry_report>>
    /\ UNCHANGED env_vars

stop_streams_exec ==
    /\ pc = "stop_exec"
    /\ printed' = Append(printed, line("terminate", idx, <<>>))
    /\ IF live_run
       THEN \E o \in quit_outcomes(idx) :
               /\ calls' = Append(calls, call("terminate", idx, o[1], <<>>))
               /\ sess' = o[2]
               /\ IF o[1] # 0
                  THEN raise /\ UNCHANGED idx
                  ELSE stop_next
       ELSE /\ stop_next
            /\ UNCHANGED <<sess, calls>>
    /\ UNCHANGED <<action, live_run, grid, dispmanx_coords, missing_stream_cnt,
                   dry_report>>
    /\ UNCHANGED env_vars

stop_streams == stop_streams_check \/ stop_streams_exec

\* time.sleep(1) between stop_streams and start_streams.
restart_streams ==
    /\ pc = "sleep"
    /\ pc' = "start_grid"
    /\ UNCHANGED <<sess, action, live_run, idx, grid, dispmanx_coords,
                   missing_stream_cnt, calls, printed, exit_status, dry_report>>
    /\ UNCHANGED env_vars

----------------------------------------------------------------------------
(* repair_streams *)

\* Variant: the membership test inverted.
is_missing_inverted(box) == anchor_of(box) \in dispmanx_coords

\* win_pos_str not in dispmanx_coords
is_missing(box) == anchor_of(box) \notin dispmanx_coords

\* subprocess.run(vcgencmd dispmanx_list) and the parse loop.
repair_streams_probe ==
    /\ pc = "repair_probe"
    /\ \E lines \in SUBSET layer_lines(streams, tvservice) :
          /\ vcgencmd_stdout' = lines
          /\ dispmanx_coords' = parse_dispmanx(lines)
          /\ dry_report' = IF dry_report.coords = dispmanx_coords'
                           THEN dry_report ELSE NoReport
    /\ pc' = "repair_grid"
    /\ UNCHANGED <<sess, action, live_run, idx, grid, missing_stream_cnt,
                   calls, printed, exit_status>>
    /\ UNCHANGED probe_frame

repair_streams_grid ==
    /\ pc = "repair_grid"
    /\ grid' = calc_grid_dims(streams)
    /\ idx' = 0
    /\ missing_stream_cnt' = 0
    /\ IF grid' = Unsupported
       THEN raise
       ELSE pc' = "repair_loop" /\ UNCHANGED exit_status
    /\ UNCHANGED <<sess, action, live_run, dispmanx_coords, calls, printed,
                   dry_report>>
    /\ UNCHANGED env_vars

\* Variant: the restart decision taken on "missing_stream_cnt >= 0".
repair_next_always ==
    /\ idx' = idx + 1
    /\ vcgencmd_stdout' = IF idx + 1 = streams THEN {} ELSE vcgencmd_stdout
    /\ IF idx + 1 = streams
       THEN pc' = "start_grid" /\ UNCHANGED exit_status
       ELSE pc' = "repair_loop" /\ UNCHANGED exit_status

\* Variant: the restart is placed inside the loop, after the first missing
\* stream.
repair_next_eager ==
    /\ idx' = idx + 1
    /\ vcgencmd_stdout' = IF idx + 1 = streams \/ missing_stream_cnt' > 0
                          THEN {} ELSE vcgencmd_stdout
    /\ IF missing_stream_cnt' > 0
       THEN pc' = "start_grid" /\ UNCHANGED exit_status
       ELSE IF idx + 1 = streams
            THEN return_ok
            ELSE pc' = "repair_loop" /\ UNCHANGED exit_status

\* After the scan: restart missing streams, if any, else nothing to do.
\* Nothing reads the probe output once the scan is over.
repair_next ==
    /\ idx' = idx + 1
    /\ vcgencmd_stdout' = IF idx + 1 = streams THEN {} ELSE vcgencmd_stdout
    /\ IF idx + 1 = streams
       THEN IF missing_stream_cnt' > 0
            THEN pc' = "start_grid" /\ UNCHANGED exit_status
            ELSE return_ok
       ELSE pc' = "repair_loop" /\ UNCHANGED exit_status

\* Variant: the status of the stop command is checked, as stop_streams does.
repair_streams_scan_strict ==
    /\ pc = "repair_loop"
    /\ LET box == stream_box(grid, idx, tvservice)
       IN  IF box = NoBox
           THEN /\ raise
                /\ UNCHANGED <<sess, idx, missing_stream_cnt, calls, printed,
                               vcgencmd_stdout>>
           ELSE IF is_missing(box)
           THEN /\ missing_stream_cnt' = missing_stream_cnt + 1
                /\ printed' = Append(printed, line("terminate", idx, <<>>))
                /\ IF live_run
                   THEN \E o \in quit_outcomes(idx) :
                           /\ calls' = Append(calls,
                                              call("terminate", idx, o[1], <<>>))
                           /\ sess' = o[2]
                           /\ IF o[1] # 0
                              THEN raise /\ UNCHANGED <<idx, vcgencmd_stdout>>
                              ELSE repair_next
                   ELSE UNCHANGED <<sess, calls>> /\ repair_next
           ELSE /\ UNCHANGED <<sess, missing_stream_cnt, calls, printed>>
                /\ repair_next
    /\ UNCHANGED <<action, live_run, grid, dispmanx_coords, dry_report>>
    /\ UNCHANGED probe_frame

repair_streams_scan ==
    /\ pc = "repair_loop"
    /\ LET box == stream_box(grid, idx, tvservice)
       IN  IF box = NoBox
           THEN /\ raise
                /\ UNCHANGED <<sess, idx, missing_stream_cnt, calls, printed,
                               vcgencmd_stdout>>
           ELSE IF is_missing(box)
           THEN /\ missing_stream_cnt' = missing_stream_cnt + 1
                /\ printed' = Append(printed, line("terminate", idx, <<>>))
                /\ IF live_run
                   THEN \E o \in quit_outcomes(idx) :
                           /\ calls' = Append(calls,
                                              call("terminate", idx, o[1], <<>>))
                           /\ sess' = o[2]
                   ELSE UNCHANGED <<sess, calls>>
                /\ repair_next
           ELSE /\ UNCHANGED <<sess, missing_stream_cnt, calls, printed>>
                /\ repair_next
    /\ UNCHANGED <<action, live_run, grid, dispmanx_coords, dry_report>>
    /\ UNCHANGED probe_frame

repair_streams == repair_streams_probe \/ repair_streams_grid \/ repair_streams_scan

----------------------------------------------------------------------------
(* Between invocations *)

\* The process has exited; the next invocation starts from a fresh process.
\* prev_start and dry_report remember what the next invocation is compared to.
exit ==
    /\ pc = "exit"
    /\ pc' = "idle"
    /\ prev_start' = IF action # "start" THEN "none"
                     ELSE IF ~live_run THEN "dry"
                     ELSE IF exit_status = 0 THEN "live_ok"
                     ELSE "live_failed"
    /\ dry_report' = IF ~live_run /\ exit_status = 0
                     THEN [action |-> action, coords |-> dispmanx_coords,
                           printed |-> printed]
                     ELSE NoReport
    /\ action' = "none"
    /\ live_run' = TRUE
    /\ idx' = 0
    /\ grid' = Unsupported
    /\ dispmanx_coords' = {}
    /\ missing_stream_cnt' = 0
    /\ calls' = <<>>
    /\ printed' = <<>>
    /\ exit_status' = 0
    /\ vcgencmd_stdout' = {}
    /\ UNCHANGED <<streams, sess, tvservice, fn_box, tools, peer>>

\* A session ends on its own between invocations (its player exited).
session_dies ==
    /\ pc = "idle"
    /\ \E i \in Indices :
          /\ sess[i] > 0
          /\ sess' = [sess EXCEPT ![i] = @ - 1]
    /\ prev_start' = "none"
    /\ dry_report' = NoReport
    /\ UNCHANGED <<streams, tvservice, action, live_run, pc, idx, grid,
                   dispmanx_coords, missing_stream_cnt, calls, printed,
                   exit_status, fn_box, tools, vcgencmd_stdout, peer>>

Next ==
    \/ main
    \/ start_streams
    \/ stop_streams
    \/ restart_streams
    \/ repair_streams
    \/ exit
    \/ session_dies

Spec == Init /\ [][Next]_vars

----------------------------------------------------------------------------
(* The script on machines where screen or grep may be missing *)

\* main tests tvservice, omxplayer and vcgencmd with check_exe but neither
\* screen nor grep; grep is tested by check_screen_session_exists, screen
\* nowhere.
InitTools ==
    /\ streams \in 1..MaxToolStreams
    /\ sess \in [Indices -> {0, 1}]
    /\ \A i \in Indices : i >= streams => sess[i] = 0
    /\ tvservice \in Modes
    /\ action = "none"
    /\ live_run = TRUE
    /\ pc = "idle"
    /\ idx = 0
    /\ grid = Unsupported
    /\ dispmanx_coords = {}
    /\ missing_stream_cnt = 0
    /\ calls = <<>>
    /\ printed = <<>>
    /\ exit_status = 0
    /\ prev_start = "none"
    /\ dry_report = NoReport
    /\ fn_box = NoBox
    /\ tools \in {"ok", "no_grep", "no_screen"}
    /\ vcgencmd_stdout = {}
    /\ peer = NoPeer

SpecTools == InitTools /\ [][Next]_vars

----------------------------------------------------------------------------
(* Two invocations of start at once *)

\* The script takes no lock: a second process running start_streams on the
\* same configuration interleaves with the first between any two external
\* commands.  Its steps are those of start_streams on its own locals.
peer_frame == <<streams, tvservice, action, live_run, pc, idx, grid,
                dispmanx_coords, missing_stream_cnt, calls, printed,
                exit_status, prev_start, dry_report, fn_box, tools,
                vcgencmd_stdout>>

peer_raise == [peer EXCEPT !.pc = "exit", !.exit_status = 1]

peer_start_next ==
    [peer EXCEPT !.idx = @ + 1,
                 !.pc = IF peer.idx + 1 = streams THEN "exit" ELSE "start_loop"]

peer_start_streams_grid ==
    /\ peer.pc = "start_grid"
    /\ LET g == calc_grid_dims(streams)
       IN  peer' = IF g = Unsupported
                   THEN [peer_raise EXCEPT !.grid = g]
                   ELSE [peer EXCEPT !.grid = g, !.idx = 0, !.pc = "start_loop"]
    /\ UNCHANGED sess
    /\ UNCHANGED peer_frame

\* Variant: an existing session is reported but not skipped.
peer_start_streams_check_no_skip ==
    /\ peer.pc = "start_loop"
    /\ peer' = IF tools = "no_grep"
               THEN peer_raise
               ELSE [peer EXCEPT
                       !.calls = Append(@, call("exists", peer.idx,
                                     IF check_screen_session_exists(peer.idx)
                                     THEN 0 ELSE 1, <<>>)),
                       !.pc = "start_exec"]
    /\ UNCHANGED sess
    /\ UNCHANGED peer_frame

peer_start_streams_check ==
    /\ peer.pc = "start_loop"
    /\ peer' = IF tools = "no_grep"
               THEN peer_raise
               ELSE IF check_screen_session_exists(peer.idx)
               THEN [peer_start_next EXCEPT
                       !.calls = Append(@, call("exists", peer.idx, 0, <<>>))]
               ELSE [peer EXCEPT
                       !.calls = Append(@, call("exists", peer.idx, 1, <<>>)),
                       !.pc = "start_exec"]
    /\ UNCHANGED sess
    /\ UNCHANGED peer_frame

peer_start_streams_exec ==
    /\ peer.pc = "start_exec"
    /\ LET box == stream_box(peer.grid, peer.idx, tvservice)
       IN  IF box = NoBox
           THEN peer' = peer_raise /\ UNCHANGED sess
           ELSE \E o \in launch_outcomes(peer.idx) :
                   /\ sess' = o[2]
                   /\ peer' = [(IF o[1] # 0 THEN peer_raise ELSE peer_start_next)
                                 EXCEPT !.calls =
                                   Append(@, call("create", peer.idx, o[1], box))]
    /\ UNCHANGED peer_frame

peer_start_streams ==
    peer_start_streams_grid \/ peer_start_streams_check \/ peer_start_streams_exec

InitRace ==
    /\ streams \in 1..MaxRaceStreams
    /\ sess \in [Indices -> {0, 1}]
    /\ \A i \in Indices : i >= streams => sess[i] = 0
    /\ tvservice \in Modes
    /\ action = "start"
    /\ live_run = TRUE
    /\ pc = "start_grid"
    /\ idx = 0
    /\ grid = Unsupported
    /\ dispmanx_coords = {}
    /\ missing_stream_cnt = 0
    /\ calls = <<>>
    /\ printed = <<>>
    /\ exit_status = 0
    /\ prev_start = "none"
    /\ dry_report = NoReport
    /\ fn_box = NoBox
    /\ tools = "ok"
    /\ vcgencmd_stdout = {}
    /\ peer = [NoPeer EXCEPT !.pc = "start_grid"]

NextRace == start_streams \/ peer_start_streams

SpecRace == InitRace /\ [][NextRace]_vars

----------------------------------------------------------------------------
(* The layout functions on their own *)

InitGrid ==
    /\ streams \in 0..MaxCount
    /\ sess = [i \in Indices |-> 0]
    /\ tvservice \in GridModes
    /\ action = "none"
    /\ live_run = TRUE
    /\ pc = "fn"
    /\ idx = 0
    /\ grid = Unsupported
    /\ dispmanx_coords = {}
    /\ missing_stream_cnt = 0
    /\ calls = <<>>
    /\ printed = <<>>
    /\ exit_status = 0
    /\ prev_start = "none"
    /\ dry_report = NoReport
    /\ fn_box = NoBox
    /\ tools = "ok"
    /\ vcgencmd_stdout = {}
    /\ peer = NoPeer

fn_calc_grid_dims ==
    /\ pc = "fn"
    /\ grid' = calc_grid_dims(streams)
    /\ IF grid' = Unsupported
       THEN raise
       ELSE pc' = "fn_grid" /\ UNCHANGED exit_status
    /\ UNCHANGED <<streams, sess, tvservice, action, live_run, idx,
                   dispmanx_coords, missing_stream_cnt, calls, printed,
                   prev_start, dry_report, fn_box, tools, vcgencmd_stdout,
                   peer>>

\* The win_pos call of the stream loops for one cell of the grid, by index.
fn_win_pos ==
    /\ pc = "fn_grid"
    /\ \E i \in 0..(grid[1] * grid[2] - 1) :
          /\ fn_box' = stream_box(grid, i, tvservice)
          /\ idx' = i
    /\ IF fn_box' = NoBox
       THEN raise
       ELSE pc' = "fn_box" /\ UNCHANGED exit_status
    /\ UNCHANGED <<streams, sess, tvservice, action, live_run, grid,
                   dispmanx_coords, missing_stream_cnt, calls, printed,
                   prev_start, dry_report, tools, vcgencmd_stdout, peer>>

NextGrid == fn_calc_grid_dims \/ fn_win_pos

SpecGrid == InitGrid /\ [][NextGrid]_vars

----------------------------------------------------------------------------
(* Vocabulary of the properties *)

Configured == 0..(streams - 1)

\* Indices named by an executed screen command of kind c.
CallIdx(c) == {calls[k].i : k \in {j \in DOMAIN calls : calls[j].c = c}}

\* Indices named by a printed command of kind c.
PrintedIdx(c) == {printed[k].i : k \in {j \in DOMAIN printed : printed[j].c = c}}

\* Indices whose command of kind c was executed and returned status rc.
CallIdxRc(c, rc) ==
    {calls[k].i : k \in {j \in DOMAIN calls : calls[j].c = c /\ calls[j].rc = rc}}

CountCalls(c, i, rc) ==
    Cardinality({k \in DOMAIN calls :
                    calls[k].c = c /\ calls[k].i = i /\ calls[k].rc = rc})

\* Sessions named cam<i> when the running invocation began: what exists now,
\* minus what it launched, plus what it quit.
Sess0(i) == sess[i] + CountCalls("terminate", i, 0) - CountCalls("create", i, 0)

\* The create / terminate commands executed, in order, as printed lines.
ExecutedCmds ==
    LET cmds == SelectSeq(calls, LAMBDA r : r.c # "exists")
    IN  [k \in DOMAIN cmds |-> line(cmds[k].c, cmds[k].i, cmds[k].win)]

\* The expected top-left corner of every stream could be computed.
LayoutKnown == calc_grid_dims(streams) # Unsupported /\ tvservice # NoMode

\* Stream indices whose expected top-left corner is not among the observed
\* corners (meaningful once repair has parsed the probe output).
MissingIdx ==
    LET g == calc_grid_dims(streams)
        x_sz == tvservice[1] \div g[1]
        y_sz == tvservice[2] \div g[2]
    IN  {i \in Configured :
            <<(i % g[1]) * x_sz, (i \div g[1]) * y_sz>> \notin dispmanx_coords}

\* repair_streams has finished its scan of all streams.
ScanDone ==
    /\ action = "repair"
    /\ LayoutKnown
    /\ pc \in {"start_grid", "start_loop", "start_exec", "exit"}

----------------------------------------------------------------------------
(* Properties *)

C2_TerminateAndCreateExactlyMissing ==
    ( /\ ScanDone /\ pc = "exit" /\ live_run /\ exit_status = 0
      /\ \A i \in CallIdxRc("terminate", 1) : Sess0(i) = 0 ) =>
        /\ CallIdx("terminate") = MissingIdx
        /\ CallIdx("create") = MissingIdx

\* C2 (amended): repair prints a terminate command for exactly the indices
\* whose expected anchor is missing, and a live repair executes exactly those;
\* a live repair that completes has created exactly the indices without a
\* session after the scan: the missing indices whose session was quit or did
\* not exist, and, if any index was missing, the indices whose anchor is
\* present but whose session did not exist.  The created indices equal the
\* missing ones when every present-anchor index had a session and every
\* terminate of an existing session succeeded.
C2_RepairTargets ==
    ScanDone =>
        /\ PrintedIdx("terminate") = MissingIdx
        /\ live_run => CallIdx("terminate") = MissingIdx
        /\ ~live_run => CallIdx("terminate") = {} /\ CallIdx("create") = {}
        /\ (pc = "exit" /\ live_run /\ exit_status = 0) =>
              /\ CallIdx("create") =
                    IF MissingIdx = {} THEN {}
                    ELSE {i \in Configured :
                            \/ i \in MissingIdx /\ Sess0(i) = 0
                            \/ i \in CallIdxRc("terminate", 0)
                            \/ i \notin MissingIdx /\ Sess0(i) = 0}
              /\ ( /\ \A i \in Configured \ MissingIdx : Sess0(i) > 0
                   /\ \A i \in MissingIdx :
                         Sess0(i) > 0 => i \in CallIdxRc("terminate", 0) )
                 => CallIdx("create") = MissingIdx

\* The scenario of the specification: 3 streams on 1920x1080, surfaces at
\* (0,0) and (960,0), all three sessions running: only index 2 is quit and
\* started again.
C2_Witness ==
    /\ pc = "exit"
    /\ action = "repair"
    /\ live_run
    /\ exit_status = 0
    /\ streams = 3
    /\ tvservice = <<1920, 1080>>
    /\ dispmanx_coords = {<<0, 0>>, <<960, 0>>}
    /\ \A i \in Configured : Sess0(i) = 1
    /\ ExecutedCmds = <<line("terminate", 2, <<>>),
                        line("create", 2, <<0, 540, 960, 1080>>)>>

\* C3: when every expected anchor is among the observed ones, no step of
\* repair executes or prints a terminate or create command or changes the
\* sessions, and repair ends with status 0, whichever sessions exist.
C3_RepairNoOp ==
    [][ ( /\ action = "repair"
          /\ pc \in {"repair_grid", "repair_loop"}
          /\ LayoutKnown
          /\ MissingIdx = {} )
        => ( /\ sess' = sess
             /\ calls' = <<>>
             /\ printed' = <<>>
             /\ pc' \in {"repair_loop", "exit"}
             /\ pc' = "exit" => exit_status' = 0 /\ idx' = streams ) ]_vars

C3_Witness ==
    /\ pc = "exit"
    /\ action = "repair"
    /\ live_run
    /\ exit_status = 0
    /\ LayoutKnown
    /\ MissingIdx = {}
    /\ streams = 3
    /\ sess[1] = 0
    /\ sess[0] = 1

\* C4: no step of a dry run (of start, stop, restart or repair) executes a
\* create or terminate command or changes the set of existing sessions.
C4_DryRunChangesNothing ==
    [][ ~live_run =>
          /\ sess' = sess
          /\ \A k \in DOMAIN calls' : calls'[k].c = "exists" ]_vars

C4_Witness ==
    /\ pc = "exit"
    /\ ~live_run
    /\ action = "restart"
    /\ exit_status = 0
    /\ streams = 3
    /\ PrintedIdx("terminate") = {0, 2}
    /\ PrintedIdx("create") = {1}
    /\ sess[0] = 1 /\ sess[1] = 0 /\ sess[2] = 1

\* C5: a live invocation that completes with every create and terminate
\* command succeeding has executed exactly the command sequence that a dry
\* run of the same action printed from the same sessions and observed
\* anchors.
C5_DryReportEqualsLiveRun ==
    ( /\ pc = "exit"
      /\ live_run
      /\ exit_status = 0
      /\ dry_report.action = action
      /\ \A k \in DOMAIN calls : calls[k].c # "exists" => calls[k].rc = 0 )
    => ExecutedCmds = dry_report.printed

\* C6: stop prints (and, live, executes) a terminate command for exactly the
\* checked indices whose session existed, skipping the others; a stop that
\* completes has checked every index; and a stop that found no session
\* executes no terminate command and ends with status 0.
C6_StopTargets ==
    action = "stop" =>
        LET pending == IF pc = "stop_exec" THEN {idx} ELSE {}
            existing == {i \in CallIdx("exists") : Sess0(i) > 0}
        IN  /\ PrintedIdx("terminate") = existing \ pending
            /\ live_run => CallIdx("terminate") = PrintedIdx("terminate")
            /\ PrintedIdx("create") = {}
            /\ (pc = "exit" /\ exit_status = 0) =>
                  CallIdx("exists") = Configured
            /\ (pc = "exit" /\ \A i \in Configured : Sess0(i) = 0) =>
                  /\ exit_status = 0
                  /\ CallIdx("terminate") = {}
                  /\ printed = <<>>

C6_Witness ==
    /\ pc = "exit"
    /\ action = "stop"
    /\ live_run
    /\ exit_status = 0
    /\ streams = 4
    /\ CallIdx("terminate") = {0, 2}
    /\ CallIdx("exists") = {0, 1, 2, 3}

\* C7: once calc_grid_dims has run, the grid is 1x1 for 1 stream, 2x2 for 2,
\* 3 or 4 streams and 3x2 for 5 or 6 streams; for 0 streams or more than 6 it
\* raised and no dimensions were returned.
C7_GridTable ==
    pc # "fn" =>
        /\ streams = 1 => grid = <<1, 1>>
        /\ streams \in {2, 3, 4} => grid = <<2, 2>>
        /\ streams \in {5, 6} => grid = <<3, 2>>
        /\ (streams = 0 \/ streams > 6) =>
              grid = Unsupported /\ pc = "exit" /\ exit_status = 1
        /\ streams \in 1..6 => pc # "exit" \/ tvservice = NoMode

C7_Witness ==
    /\ pc = "fn_grid"
    /\ streams = 5
    /\ grid = <<3, 2>>

\* Two boxes (left, top, right, bottom) share no pixel.
Disjoint(a, b) ==
    \/ a[3] <= b[1] \/ b[3] <= a[1]
    \/ a[4] <= b[2] \/ b[4] <= a[2]

Area(a) == (a[3] - a[1]) * (a[4] - a[2])

RECURSIVE SumArea(_)
SumArea(boxes) ==
    IF boxes = {} THEN 0
    ELSE LET b == CHOOSE c \in boxes : TRUE
         IN  Area(b) + SumArea(boxes \ {b})

\* C8: for the computed grid and the reported display mode, the boxes of
\* distinct cells share no pixel, every box lies inside the display, and the
\* boxes cover [0, cols*floor(w/cols)) x [0, rows*floor(h/rows)): they lie
\* inside that rectangle, are disjoint and their areas add up to its area
\* (on small displays this is also checked pixel by pixel).
C8_BoxesTileDisplay ==
    (pc \in {"fn_grid", "fn_box"} /\ tvservice # NoMode) =>
        LET cols == grid[1]
            rows == grid[2]
            w == tvservice[1]
            h == tvservice[2]
            cells == (0..(cols - 1)) \X (0..(rows - 1))
            box(c) == win_pos(cols, rows, c[1], c[2], tvservice)
            covW == cols * (w \div cols)
            covH == rows * (h \div rows)
        IN  /\ \A c \in cells, d \in cells :
                  c # d => box(c) # box(d) /\ Disjoint(box(c), box(d))
            /\ \A c \in cells :
                  /\ 0 <= box(c)[1] /\ box(c)[1] < box(c)[3] /\ box(c)[3] <= covW
                  /\ 0 <= box(c)[2] /\ box(c)[2] < box(c)[4] /\ box(c)[4] <= covH
                  /\ covW <= w /\ covH <= h
                  /\ w - covW < cols /\ h - covH < rows
            /\ SumArea({box(c) : c \in cells}) = covW * covH
            /\ w * h <= 64 =>
                  \A px \in 0..(covW - 1), py \in 0..(covH - 1) :
                     \E c \in cells :
                        /\ box(c)[1] <= px /\ px < box(c)[3]
                        /\ box(c)[2] <= py /\ py < box(c)[4]

C8_Witness ==
    /\ pc = "fn_box"
    /\ tvservice = <<1366, 768>>
    /\ grid = <<3, 2>>
    /\ idx = 5
    /\ fn_box = <<910, 384, 1365, 768>>

\* C9: the box of stream index i is (left, top, right, bottom) with
\* col = i mod cols, row = i div cols, tileW = floor(w/cols),
\* tileH = floor(h/rows), left = col*tileW, top = row*tileH,
\* right = left+tileW, bottom = top+tileH; 3 streams on 1920x1080 get
\* (0,0,960,540), (960,0,1920,540), (0,540,960,1080); and distinct indices
\* get distinct top-left corners.
C9_StreamBox ==
    pc = "fn_box" =>
        LET cols == IF streams = 1 THEN 1 ELSE IF streams <= 4 THEN 2 ELSE 3
            rows == IF streams = 1 THEN 1 ELSE 2
            tileW == tvservice[1] \div cols
            tileH == tvservice[2] \div rows
            left == (idx % cols) * tileW
            top == (idx \div cols) * tileH
        IN  /\ fn_box = <<left, top, left + tileW, top + tileH>>
            /\ (streams = 3 /\ tvservice = <<1920, 1080>>) =>
                  /\ idx = 0 => fn_box = <<0, 0, 960, 540>>
                  /\ idx = 1 => fn_box = <<960, 0, 1920, 540>>
                  /\ idx = 2 => fn_box = <<0, 540, 960, 1080>>
            /\ \A j \in Configured :
                  j # idx =>
                     anchor_of(stream_box(grid, j, tvservice)) # anchor_of(fn_box)

C9_Witness ==
    /\ pc = "fn_box"
    /\ streams = 3
    /\ tvservice = <<1920, 1080>>
    /\ idx = 2
    /\ fn_box = <<0, 540, 960, 1080>>

\* C10: a create command that returns a nonzero status during a live run is
\* the last external command of the invocation (no exists check and no create
\* for a later index follows), the invocation ends with a nonzero exit
\* status, and every session created earlier in the invocation still exists.
C10_LaunchFailureIsFatal ==
    \A k \in DOMAIN calls :
        (calls[k].c = "create" /\ calls[k].rc # 0) =>
            /\ k = Len(calls)
            /\ pc = "exit"
            /\ exit_status # 0
            /\ live_run
            /\ \A j \in 1..(k - 1) :
                  /\ calls[j].c = "create" => calls[j].i < calls[k].i
                  /\ (calls[j].c = "create" /\ calls[j].rc = 0) =>
                        sess[calls[j].i] > 0
            /\ sess[calls[k].i] = 0

C10_Witness ==
    /\ pc = "exit"
    /\ action = "start"
    /\ exit_status # 0
    /\ streams = 5
    /\ Len(calls) = 6
    /\ calls[2] = call("create", 0, 0, <<0, 0, 640, 540>>)
    /\ calls[6] = call("create", 2, 1, <<1280, 0, 1920, 540>>)
    /\ sess[0] = 1 /\ sess[1] = 1 /\ sess[2] = 0

\* Sessions named cam<i> just before the k-th external command.
SessBefore(i, k) ==
    Sess0(i)
      + Cardinality({j \in 1..(k - 1) :
            calls[j].c = "create" /\ calls[j].i = i /\ calls[j].rc = 0})
      - Cardinality({j \in 1..(k - 1) :
            calls[j].c = "terminate" /\ calls[j].i = i /\ calls[j].rc = 0})

\* C11: a terminate command that returns a nonzero status for a session that
\* exists (in stop, in the stop phase of restart, or in repair) is the last
\* external command of the invocation, which ends with a nonzero exit status.
C11_TerminateFailureIsFatal ==
    \A k \in DOMAIN calls :
        ( /\ calls[k].c = "terminate"
          /\ calls[k].rc # 0
          /\ SessBefore(calls[k].i, k) > 0 ) =>
            /\ k = Len(calls)
            /\ pc = "exit"
            /\ exit_status # 0

\* C12: with more than 6 configured streams an invocation of any of the four
\* actions executes no terminate and no create command and ends with a
\* nonzero exit status.
C12_UnsupportedCountDoesNothing ==
    (streams > 6 /\ action # "none") =>
        /\ CallIdx("terminate") = {}
        /\ CallIdx("create") = {}
        /\ pc = "exit" => exit_status # 0

\* C13: in a restart, a terminate command is executed only in the stop phase
\* and before any create; the sleep is entered only from a stop phase that
\* checked every stream without a failure; the start phase is entered only
\* from the sleep; a create command is executed only in the start phase; and
\* a stop phase that fails ends the invocation with a nonzero status and no
\* create.
C13_RestartOrder ==
    [][ action = "restart" =>
          LET added == Len(calls') > Len(calls)
              new == calls'[Len(calls')]
              stopping == pc \in {"stop_loop", "stop_exec"}
              starting == pc \in {"start_grid", "start_loop", "start_exec"}
          IN  /\ (added /\ new.c = "terminate") =>
                    pc = "stop_exec" /\ CallIdx("create") = {}
              /\ (added /\ new.c = "create") => pc = "start_exec"
              /\ stopping => pc' \in {"stop_loop", "stop_exec", "sleep", "exit"}
              /\ pc' = "sleep" =>
                    /\ stopping
                    /\ CallIdx("exists")' = Configured
                    /\ CallIdxRc("terminate", 1)' = {}
                    /\ CallIdx("create")' = {}
              /\ pc = "sleep" => pc' = "start_grid" /\ calls' = calls /\ sess' = sess
              /\ pc' = "start_grid" => pc = "sleep"
              /\ starting => pc' \in {"start_loop", "start_exec", "exit"}
              /\ (stopping /\ pc' = "exit") =>
                    exit_status' # 0 /\ CallIdx("create")' = {}
              /\ pc = "exit" => pc' = "idle" ]_vars

C13_Witness ==
    /\ pc = "exit"
    /\ action = "restart"
    /\ live_run
    /\ exit_status = 0
    /\ streams = 3
    /\ [k \in DOMAIN ExecutedCmds |-> <<ExecutedCmds[k].c, ExecutedCmds[k].i>>]
          = << <<"terminate", 0>>, <<"terminate", 2>>,
               <<"create", 0>>, <<"create", 1>>, <<"create", 2>> >>

\* C14: a repair whose probe yielded no parsable layer (an empty set of
\* observed corners) executes no terminate and no create command and ends
\* with a nonzero exit status.
C14_EmptyProbeAbortsRepair ==
    (action = "repair" /\ pc # "repair_probe" /\ dispmanx_coords = {}) =>
        /\ CallIdx("terminate") = {}
        /\ CallIdx("create") = {}
        /\ pc = "exit" => exit_status # 0

\* C16: no stream index ever has two sessions of its name, whatever sequence
\* of start, stop, restart and repair invocations (failing ones included) and
\* of sessions ending on their own has happened.
C16_AtMostOneSessionPerIndex == \A i \in Indices : sess[i] <= 1

\* A repair quit a running session and started it again; every configured
\* stream has exactly one session.
C16_Witness ==
    /\ pc = "exit"
    /\ action = "repair"
    /\ live_run
    /\ exit_status = 0
    /\ streams = 2
    /\ 0 \in CallIdxRc("terminate", 0)
    /\ 0 \in CallIdxRc("create", 0)
    /\ 1 \notin CallIdx("create")
    /\ sess[0] = 1 /\ sess[1] = 1

\* The last external command of the invocation, if any, matches (c, rc).
LastCallIs(c, rc) ==
    /\ calls # <<>>
    /\ calls[Len(calls)].c = c
    /\ calls[Len(calls)].rc = rc

C18_ScanThenRestart ==
    action = "repair" =>
        /\ \A k \in 1..(Len(calls) - 1) :
              LET a == calls[k]
                  b == calls[k + 1]
              IN  /\ a.c = "terminate" =>
                        \/ b.c = "terminate" /\ a.i < b.i
                        \/ b.c = "exists" /\ b.i = 0
                  /\ a.c = "exists" =>
                        \/ a.rc = 0 /\ b.c = "exists" /\ b.i = a.i + 1
                        \/ a.rc # 0 /\ live_run /\ b.c = "create" /\ b.i = a.i
                        \/ a.rc # 0 /\ ~live_run /\ b.c = "exists"
                              /\ b.i = a.i + 1
                  /\ a.c = "create" => b.c = "exists" /\ b.i = a.i + 1
        /\ \A k \in 1..(Len(printed) - 1) :
              /\ printed[k].i < printed[k + 1].i
                    \/ (printed[k].c = "terminate" /\ printed[k + 1].c = "create")
              /\ printed[k].c = "create" => printed[k + 1].c = "create"
        /\ (calls # <<>> /\ calls[1].c # "terminate") => CallIdx("terminate") = {}
        /\ (live_run /\ ScanDone) => CallIdx("terminate") = MissingIdx
        /\ ( \/ pc \in {"start_grid", "start_loop", "start_exec"}
             \/ CallIdx("exists") # {}
             \/ PrintedIdx("create") # {} ) =>
              /\ LayoutKnown
              /\ MissingIdx # {}
              /\ missing_stream_cnt = Cardinality(MissingIdx)
              /\ PrintedIdx("terminate") = MissingIdx

C18_Witness ==
    /\ pc = "exit"
    /\ action = "repair"
    /\ live_run
    /\ exit_status = 0
    /\ streams = 4
    /\ \A i \in Configured : Sess0(i) = 1
    /\ [k \in DOMAIN ExecutedCmds |-> <<ExecutedCmds[k].c, ExecutedCmds[k].i>>]
          = << <<"terminate", 1>>, <<"terminate", 3>>,
               <<"create", 1>>, <<"create", 3>> >>

\* Corners of the layers that vcgencmd printed with a known format.
KnownFormatAnchors ==
    {a \in cell_anchors(streams, tvservice) :
        [format |-> "RGBA32", dst |-> a] \in vcgencmd_stdout}

\* C19: during the scan of repair the observed corners are exactly the
\* corners of the layers printed with a known format; a stream whose expected
\* corner is printed by no known-format layer (by an UNKNOWN layer only, or
\* not at all) is counted missing and gets a terminate command, a stream
\* whose corner is printed by a known-format layer gets none; and no step of
\* the scan, with or without UNKNOWN layers in the output, ends repair with a
\* failure.
C19_UnknownLayersIgnored ==
    [][ (action = "repair" /\ pc = "repair_loop" /\ LayoutKnown) =>
          LET a == anchor_of(stream_box(grid, idx, tvservice))
          IN  /\ dispmanx_coords = KnownFormatAnchors
              /\ a \notin KnownFormatAnchors =>
                    /\ missing_stream_cnt' = missing_stream_cnt + 1
                    /\ printed' = Append(printed, line("terminate", idx, <<>>))
                    /\ live_run =>
                          /\ Len(calls') = Len(calls) + 1
                          /\ calls'[Len(calls')].c = "terminate"
                          /\ calls'[Len(calls')].i = idx
              /\ a \in KnownFormatAnchors =>
                    /\ missing_stream_cnt' = missing_stream_cnt
                    /\ printed' = printed
                    /\ calls' = calls
              /\ pc' = "exit" => exit_status' = 0 ]_vars

\* A live repair of two streams whose output has an UNKNOWN layer at (0,0)
\* and no known-format layer there: stream 0 was quit, the scan goes on.
C19_Witness ==
    /\ action = "repair"
    /\ pc = "repair_loop"
    /\ live_run
    /\ streams = 2
    /\ idx = 1
    /\ [format |-> "UNKNOWN", dst |-> <<0, 0>>] \in vcgencmd_stdout
    /\ [format |-> "RGBA32", dst |-> <<0, 0>>] \notin vcgencmd_stdout
    /\ [format |-> "RGBA32", dst |-> <<960, 0>>] \in vcgencmd_stdout
    /\ dispmanx_coords = {<<960, 0>>}
    /\ Len(calls) = 1
    /\ calls[1].c = "terminate" /\ calls[1].i = 0 /\ calls[1].rc = 0
    /\ sess[0] = 0

\* C15: when screen or grep cannot be run, a live start or stop gets no
\* answer from the session existence check, executes no create and no
\* terminate command, and ends with a nonzero exit status.
C15_RegistryUnavailableIsFatal ==
    (action \in {"start", "stop"} /\ live_run /\ tools # "ok") =>
        /\ CallIdx("exists") = {}
        /\ CallIdx("create") = {}
        /\ CallIdx("terminate") = {}
        /\ pc = "exit" => exit_status # 0

\* C21: when tvservice reports no active mode, a live start, restart or
\* repair executes no create command, a repair executes no terminate command
\* either, and the invocation ends with a nonzero exit status.
C21_UnknownResolutionIsFatal ==
    (tvservice = NoMode /\ live_run
       /\ action \in {"start", "restart", "repair"}) =>
        /\ CallIdx("create") = {}
        /\ action = "repair" => CallIdx("terminate") = {}
        /\ pc = "exit" => exit_status # 0

\* C22: a live start or restart that ends with status 0 leaves a session for
\* every configured index, a live stop that ends with status 0 leaves no
\* session for any configured index, and a live repair that ends with status
\* 0 leaves a session for every index whose anchor was missing.
C22_OperationsConverge ==
    (pc = "exit" /\ live_run /\ exit_status = 0) =>
        /\ action \in {"start", "restart"} =>
              \A i \in Configured : sess[i] = 1
        /\ action = "stop" => \A i \in Configured : sess[i] = 0
        /\ (action = "repair" /\ LayoutKnown) =>
              \A i \in MissingIdx : sess[i] = 1

\* A live restart from a mixed state: session 0 existed and was quit, and
\* all three sessions were created.
C22_Witness ==
    /\ pc = "exit"
    /\ action = "restart"
    /\ live_run
    /\ exit_status = 0
    /\ streams = 3
    /\ Sess0(0) = 1 /\ Sess0(1) = 0 /\ Sess0(2) = 1
    /\ CallIdxRc("terminate", 0) = {0, 2}
    /\ CallIdxRc("create", 0) = {0, 1, 2}
    /\ \A i \in Configured : sess[i] = 1

\* Indices for which the second invocation ran command c with status rc.
PeerCallIdxRc(c, rc) ==
    {peer.calls[k].i : k \in {j \in DOMAIN peer.calls :
                                peer.calls[j].c = c /\ peer.calls[j].rc = rc}}

\* C23: with two start invocations interleaved between external commands,
\* an index has two sessions exactly when both invocations created it, each
\* after its own exists check found the session absent; no invocation
\* creates a session it found present, and no index gets a third session.
C23_TwoSessionsByUnlockedCheck ==
    /\ CallIdxRc("create", 0) \cup CallIdxRc("create", 1)
          \subseteq CallIdxRc("exists", 1)
    /\ PeerCallIdxRc("create", 0) \cup PeerCallIdxRc("create", 1)
          \subseteq PeerCallIdxRc("exists", 1)
    /\ \A i \in Indices :
          /\ sess[i] <= 2
          /\ sess[i] = 2 <=>
                (i \in CallIdxRc("create", 0) /\ i \in PeerCallIdxRc("create", 0))

\* Both invocations found no session cam0, both launched one: two sessions
\* of index 0 exist and both invocations ended with status 0.
C23_Witness ==
    /\ streams = 1
    /\ sess[0] = 2
    /\ pc = "exit" /\ exit_status = 0
    /\ peer.pc = "exit" /\ peer.exit_status = 0
    /\ [k \in DOMAIN calls |-> <<calls[k].c, calls[k].i, calls[k].rc>>]
          = << <<"exists", 0, 1>>, <<"create", 0, 0>> >>
    /\ [k \in DOMAIN peer.calls |->
            <<peer.calls[k].c, peer.calls[k].i, peer.calls[k].rc>>]
          = << <<"exists", 0, 1>>, <<"create", 0, 0>> >>

====
